---- MODULE Spec2Model ----
(***************************************************************************)
(* A model of the content-rewriting proxy of src/app/api/proxy/route.ts:   *)
(* the process-wide cookie store, the manual redirect resolver, the        *)
(* request handler, and the HTML/CSS URL rewrite engine.                   *)
(*                                                                         *)
(* Text is modelled as a sequence of one-character strings, so that        *)
(* split, startsWith and join are computed as the code computes them.      *)
(* A proxied request is a process whose steps are the synchronous blocks   *)
(* between two awaits of the code (JavaScript runs each block to its next  *)
(* await without interleaving).                                            *)
(***************************************************************************)
EXTENDS Integers, Sequences, FiniteSets, TLC

(***************************************************************************)
(* Bounds of the model.                                                    *)
(***************************************************************************)
\* number of proxied requests that may be in flight together
NReq == 2
\* upstream responses, over all requests, that carry Set-Cookie headers
MaxCookieResponses == 2
\* 3xx responses, over all requests, that upstream gives in Spec
MaxRedirectResponses == 3
\* responses with Set-Cookie headers in the specifications of long chains
DeepCookieResponses == 0
\* responses with Set-Cookie headers when one request is followed alone
SoloCookieResponses == 3

Reqs == 1..NReq

\* tags of a document, url() tokens of a style sheet
MaxTags == 1
\* times the rewrite engine is run on a text
MaxPasses == 2

(***************************************************************************)
(* Text helpers (String.prototype.split / startsWith / Array.join).        *)
(***************************************************************************)
\* index of the first occurrence of character ch in s, 0 when absent
IndexOf(s, ch) ==
  IF \E i \in 1..Len(s) : s[i] = ch
  THEN CHOOSE i \in 1..Len(s) : s[i] = ch /\ \A j \in 1..(i-1) : s[j] # ch
  ELSE 0

\* s.split(ch)[0]: the text before the first ch, all of s when there is none
SplitFirst(s, ch) ==
  IF IndexOf(s, ch) = 0 THEN s ELSE SubSeq(s, 1, IndexOf(s, ch) - 1)

\* s.startsWith(p)
StartsWith(s, p) == Len(p) <= Len(s) /\ SubSeq(s, 1, Len(p)) = p

RECURSIVE Join(_, _)
\* parts.join(sep)
Join(parts, sep) ==
  IF parts = <<>> THEN <<>>
  ELSE IF Len(parts) = 1 THEN parts[1]
  ELSE parts[1] \o sep \o Join(Tail(parts), sep)

(***************************************************************************)
(* Session store: updateCookies and getCookieHeader.                       *)
(***************************************************************************)
\* the filter of line 37: the entries that do not start with cookieName + '='
\* the filter testing the name alone, without the '=' that ends it
FilterOthersByPrefix(store, cookieName) ==
  SelectSeq(store, LAMBDA c : ~StartsWith(c, cookieName))

FilterOthers(store, cookieName) ==
  SelectSeq(store, LAMBDA c : ~StartsWith(c, cookieName \o <<"=">>))

\* the body of the forEach (lines 35-40) for one Set-Cookie header value
RecordCookie(store, cookie) ==
  LET cookieName  == SplitFirst(cookie, "=")
      cookieValue == SplitFirst(cookie, ";")
  IN  Append(FilterOthers(store, cookieName), cookieValue)

RECURSIVE updateCookies(_, _)
\* the store after updateCookies(response), setCookies = getSetCookie()
updateCookies(store, setCookies) ==
  IF setCookies = <<>> THEN store
  ELSE updateCookies(RecordCookie(store, Head(setCookies)), Tail(setCookies))

\* the retained pair of a Set-Cookie header value: cookie.split(';')[0]
PairOf(cookie) == SplitFirst(cookie, ";")

\* the name of a stored pair: the text before its first '='
NameOf(pair) == SplitFirst(pair, "=")

\* the names the store holds
Names(store) == { NameOf(store[i]) : i \in 1..Len(store) }

\* the entries the store holds
Entries(store) == { store[i] : i \in 1..Len(store) }

RECURSIVE ChainMerge(_, _)
\* history: the pairs a chain of responses has set, the last one per name
ChainMerge(pairs, setCookies) ==
  IF setCookies = <<>> THEN pairs
  ELSE ChainMerge(
         {p \in pairs : NameOf(p) # NameOf(PairOf(Head(setCookies)))}
           \cup {PairOf(Head(setCookies))},
         Tail(setCookies))

\* getCookieHeader(): the entries joined with "; "
getCookieHeader(store) == Join(store, <<";", " ">>)

(***************************************************************************)
(* Upstream inputs: cookie headers, URLs, Location values, responses.      *)
(***************************************************************************)
\* "a=1"
CookieA1 == <<"a", "=", "1">>
\* "a=2; P": the same name with another value and an attribute
CookieA2 == <<"a", "=", "2", ";", " ", "P">>
\* "b=1"
CookieB1 == <<"b", "=", "1">>
\* "ab=1": a name of which "a" is a prefix
CookieAB == <<"a", "b", "=", "1">>
\* "f": a header without '=' (a valueless cookie)
CookieF  == <<"f">>

\* the getSetCookie() values an upstream response may carry
CookieLists ==
  { <<>>, <<CookieA1>>, <<CookieA2>>, <<CookieF>>,
    <<CookieA1, CookieA2>>, <<CookieB1, CookieAB>> }

\* the URL the caller asks for
TargetUrl == [origin |-> "site", dir |-> "/d/"]
OtherUrl  == [origin |-> "other", dir |-> "/"]

\* Location header values: absent, unparseable, "/p", or an absolute URL
Locations ==
  { [kind |-> k, url |-> TargetUrl] : k \in {"none", "bad", "root"} }
  \cup { [kind |-> "abs", url |-> u] : u \in {OtherUrl, TargetUrl} }

\* new URL(location, base) does not throw
CanResolve(location) == location.kind # "bad"

\* new URL(location, base).href
ResolveLocation(location, base) ==
  CASE location.kind = "abs"  -> location.url
    [] location.kind = "root" -> [origin |-> base.origin, dir |-> "/"]
    [] OTHER                  -> base

Statuses == {200, 302, 404}
ContentTypes == {"text/html", "text/css", "application/javascript", "image/png"}

\* Of a response the state keeps the status, the Set-Cookie headers (line 501
\* records them again), the Location header (line 467) and the body.
\* Content-Type is read when the response is returned (line 535) and is drawn
\* there.
NoResponse ==
  [status |-> 0, setCookies |-> <<>>, body |-> 0,
   location |-> [kind |-> "none", url |-> TargetUrl]]

\* the url search parameter: absent, empty, not a URL, or a URL
UrlParams ==
  { [kind |-> k, url |-> TargetUrl] : k \in {"null", "empty", "bad", "ok"} }

\* request.headers.get('user-agent') || '': the header absent, or present
UserAgents == {"", "ua"}

\* method and body as GET() and POST() pass them to proxyRequest, and the
\* User-Agent of the inbound request
Inbounds ==
  { [method |-> "GET", body |-> "undefined", url |-> u, userAgent |-> a] :
      u \in UrlParams, a \in UserAgents }
  \cup { [method |-> "POST", body |-> b, url |-> u, userAgent |-> a] :
           b \in {"", "k=v"}, u \in UrlParams, a \in UserAgents }

NoInbound ==
  [method |-> "", body |-> "undefined", url |-> [kind |-> "null", url |-> TargetUrl],
   userAgent |-> ""]

NoFetch == [url |-> TargetUrl, method |-> "", body |-> "undefined",
            cookie |-> <<>>, userAgent |-> "", contentType |-> "", redirect |-> ""]

NoResult == [status |-> 0, kind |-> "none", contentType |-> "", body |-> 0,
             target |-> TargetUrl]

(***************************************************************************)
(* State.                                                                  *)
(***************************************************************************)
VARIABLES
  storedCookies,    \* line 4: the process-wide store, a list of "name=value"
  pc,               \* where each request is: idle, fetch, hop, text, done
  inbound,          \* each request's method, body and url parameter
  inflight,         \* the upstream request each request awaits
  redirectCount,    \* followRedirects' locals
  currentResponse,
  nextUrl,
  result,           \* the response returned to the caller
  sent,             \* history: upstream requests issued by each request
  exit,             \* history: how the resolver's loop ended
  chainCookies,     \* history: the pairs set by the responses of each request
  cookieQuota,      \* environment: responses that may still carry Set-Cookie
  redirectQuota,    \* environment: 3xx responses upstream may still give
  arrivals,         \* environment: requests that may still arrive
  varied,           \* environment: whether methods, statuses, Location values
                    \* and content types take all their values
  htmlPasses,       \* an HTML document and the engine's successive outputs
  cssPasses         \* a style sheet and the engine's successive outputs

vars == <<storedCookies, pc, inbound, inflight, redirectCount,
          currentResponse, nextUrl, result, sent, exit, chainCookies,
          cookieQuota, redirectQuota,
          arrivals, varied, htmlPasses, cssPasses>>

env == <<cookieQuota, redirectQuota, arrivals, varied>>

texts == <<htmlPasses, cssPasses>>

\* the program after construction: an empty store and no request
Start ==
  /\ storedCookies = <<>>
  /\ pc = [r \in Reqs |-> "idle"]
  /\ inbound = [r \in Reqs |-> NoInbound]
  /\ inflight = [r \in Reqs |-> NoFetch]
  /\ redirectCount = [r \in Reqs |-> 0]
  /\ currentResponse = [r \in Reqs |-> NoResponse]
  /\ nextUrl = [r \in Reqs |-> TargetUrl]
  /\ result = [r \in Reqs |-> NoResult]
  /\ sent = [r \in Reqs |-> 0]
  /\ exit = [r \in Reqs |-> "none"]
  /\ chainCookies = [r \in Reqs |-> {}]

(***************************************************************************)
(* followRedirects (lines 452-504).                                        *)
(***************************************************************************)
\* the default of the maxRedirects parameter
MaxRedirects == 10

IsRedirect(status) == status >= 300 /\ status < 400

\* line 462 with the bound tested by <= instead of <
LoopGuardInclusive(response, count) ==
  response.status >= 300 /\ response.status < 400 /\ count <= 10

\* the while condition of line 462
LoopGuard(response, count) == IsRedirect(response.status) /\ count < MaxRedirects

\* line 493 left out: the count never grows
NextCountStuck(count) == count

\* redirectCount++ of line 493
NextCount(count) == count + 1

\* history: one more upstream request issued; the count stops at two past the
\* hop bound, which tells any overrun of it
CountSent(n) == IF n < MaxRedirects + 2 THEN n + 1 ELSE n

\* the RequestInit of lines 515-527, with the Cookie header as given
FetchOptions(req, cookie) ==
  [url         |-> req.url.url,
   method      |-> req.method,
   body        |-> IF req.method = "POST" /\ req.body \notin {"", "undefined"}
                   THEN req.body ELSE "undefined",
   cookie      |-> cookie,
   userAgent   |-> req.userAgent,
   contentType |-> IF req.method = "POST"
                   THEN "application/x-www-form-urlencoded" ELSE "",
   redirect    |-> "manual"]

\* updatedOptions spreading fetchOptions with its headers as they were: the
\* Cookie header of the first request is sent again
UpdatedOptionsStaleCookie(options, url, cookie) == [options EXCEPT !.url = url]

\* the hop sent as a browser follows a 302: a GET without a body
UpdatedOptionsAsGet(options, url, cookie) ==
  [options EXCEPT !.url = url, !.cookie = cookie,
                  !.method = "GET", !.body = "undefined"]

\* updatedOptions of lines 482-488, fetched at url
UpdatedOptions(options, url, cookie) ==
  [options EXCEPT !.url = url, !.cookie = cookie]

\* line 501 left out: the last response is not recorded
FinalRecordSkipped(store, response) == store

\* the store when the loop is left (line 501 records the response once more)
FinalRecord(store, response) == updateCookies(store, response.setCookies)

\* what the state keeps of a response
Kept(response) ==
  [status |-> response.status, setCookies |-> response.setCookies,
   body |-> response.body, location |-> response.location]

\* One run of the loop from its condition, with response just received and
\* count redirects followed: it ends at the next await (the fetch of line 492)
\* or at the return of line 503.
LoopStep(r, response, count, base) ==
  IF LoopGuard(response, count)
  THEN LET recorded == updateCookies(storedCookies, response.setCookies)
       IN  IF response.location.kind = "none" \/ ~CanResolve(response.location)
           THEN \* break of line 470 or 478
                /\ storedCookies' = FinalRecord(recorded, response)
                /\ pc' = [pc EXCEPT ![r] = "text"]
                /\ exit' = [exit EXCEPT ![r] =
                             IF response.location.kind = "none" THEN "noloc" ELSE "badloc"]
                /\ nextUrl' = [nextUrl EXCEPT ![r] = base]
                /\ inflight' = [inflight EXCEPT ![r] = NoFetch]
                /\ sent' = sent
           ELSE \* the fetch of line 492
                /\ storedCookies' = recorded
                /\ nextUrl' = [nextUrl EXCEPT ![r] = ResolveLocation(response.location, base)]
                /\ inflight' = [inflight EXCEPT ![r] =
                      UpdatedOptions(FetchOptions(inbound[r], <<>>),
                                     ResolveLocation(response.location, base),
                                     getCookieHeader(recorded))]
                /\ pc' = [pc EXCEPT ![r] = "hop"]
                /\ sent' = [sent EXCEPT ![r] = CountSent(@)]
                /\ exit' = exit
  ELSE \* the loop is over: lines 501-503
       /\ storedCookies' = FinalRecord(storedCookies, response)
       /\ pc' = [pc EXCEPT ![r] = "text"]
       /\ exit' = [exit EXCEPT ![r] =
                    IF IsRedirect(response.status) THEN "bound" ELSE "final"]
       /\ nextUrl' = [nextUrl EXCEPT ![r] = base]
       /\ inflight' = [inflight EXCEPT ![r] = NoFetch]
       /\ sent' = sent

\* the responses upstream may give to the request r awaits; the body is named
\* by the number of the upstream request it answers
Responses(r) ==
  { x \in [status     : IF varied THEN Statuses ELSE {200, 302},
           location   : IF varied THEN Locations
                        ELSE {l \in Locations : l.kind \in {"none", "abs"}},
           setCookies : IF cookieQuota > 0 THEN CookieLists ELSE {<<>>},
           body       : {sent[r]}] :
      IF IsRedirect(x.status) THEN redirectQuota # 0 ELSE x.location.kind = "none" }

\* the inbound requests that may arrive
Arrivals ==
  IF varied THEN Inbounds
  ELSE {q \in Inbounds : q.method = "GET" /\ q.userAgent = "ua"}

\* the Content-Type values a returned response may have
ReturnedTypes == IF varied THEN ContentTypes ELSE {"text/html"}

\* a redirectQuota that is never used up
Unlimited == 0 - 1

\* the environment's account of the response r received, and r's history
Account(r, response) ==
  /\ cookieQuota' = IF response.setCookies # <<>> THEN cookieQuota - 1 ELSE cookieQuota
  /\ redirectQuota' = IF IsRedirect(response.status) /\ redirectQuota > 0
                      THEN redirectQuota - 1 ELSE redirectQuota
  /\ chainCookies' = [chainCookies EXCEPT ![r] = ChainMerge(@, response.setCookies)]
  /\ UNCHANGED <<arrivals, varied>>

(***************************************************************************)
(* Content classification and the response returned (lines 534-600).       *)
(***************************************************************************)
\* contentType.toLowerCase().includes('text/html')
shouldRewriteHtml(contentType) == contentType = "text/html"
\* contentType.toLowerCase().includes('text/css')
isCssContent(contentType) == contentType = "text/css"
\* includes('javascript') || includes('application/x-javascript')
isJsContent(contentType) == contentType = "application/javascript"

\* NextResponse.json({ error: 'URL parameter is required' }, { status: 400 })
MissingUrlResponse ==
  [status |-> 400, kind |-> "URL parameter is required",
   contentType |-> "application/json", body |-> 0, target |-> TargetUrl]

\* line 599 without its { status: 500 }: the status defaults to 200
FailedResponseDefaultStatus ==
  [status |-> 200, kind |-> "Failed to fetch URL",
   contentType |-> "application/json", body |-> 0,
   target |-> [origin |-> "site", dir |-> "/d/"]]

\* NextResponse.json({ error: 'Failed to fetch URL' }, { status: 500 })
FailedResponse ==
  [status |-> 500, kind |-> "Failed to fetch URL",
   contentType |-> "application/json", body |-> 0, target |-> TargetUrl]

\* the body handed back: the text or bytes of res
ReturnedBody(res) == res.body

\* every branch passing res.status on, the HTML branch too
AssembleUpstreamStatus(res, contentType, url) ==
  [status |-> res.status,
   kind |-> IF shouldRewriteHtml(contentType) THEN "html"
            ELSE IF isCssContent(contentType) THEN "css"
            ELSE IF isJsContent(contentType) THEN "js" ELSE "binary",
   contentType |-> contentType, body |-> res.body, target |-> url]

\* the NextResponse built from res, the resolver's result, whose Content-Type
\* is contentType, for the target url
Assemble(res, contentType, url) ==
  IF shouldRewriteHtml(contentType)
  THEN [status |-> 200, kind |-> "html", contentType |-> contentType,
        body |-> ReturnedBody(res), target |-> url]
  ELSE IF isCssContent(contentType)
  THEN [status |-> res.status, kind |-> "css", contentType |-> contentType,
        body |-> ReturnedBody(res), target |-> url]
  ELSE IF isJsContent(contentType)
  THEN [status |-> res.status, kind |-> "js", contentType |-> contentType,
        body |-> ReturnedBody(res), target |-> url]
  ELSE [status |-> res.status, kind |-> "binary", contentType |-> contentType,
        body |-> ReturnedBody(res), target |-> url]

(***************************************************************************)
(* proxyRequest (lines 506-601), one action per synchronous block.         *)
(***************************************************************************)
\* line 510 testing url === null: an empty parameter passes
MissingUrlNullOnly(req) == req.url.kind = "null"

\* !url of line 510: the parameter is absent or empty
MissingUrl(req) == req.url.kind \in {"null", "empty"}

\* A request arrives: lines 507-529, up to the await of the first fetch.
\* fetch() of a string that is no URL rejects, and line 597 catches it.
Begin(r) ==
  /\ pc[r] = "idle"
  /\ arrivals > 0
  /\ arrivals' = arrivals - 1
  /\ \E req \in Arrivals :
       /\ inbound' = [inbound EXCEPT ![r] = req]
       /\ IF MissingUrl(req)
          THEN /\ result' = [result EXCEPT ![r] = MissingUrlResponse]
               /\ pc' = [pc EXCEPT ![r] = "done"]
               /\ UNCHANGED <<inflight, sent, exit>>
          ELSE IF req.url.kind = "bad"
          THEN /\ result' = [result EXCEPT ![r] = FailedResponse]
               /\ pc' = [pc EXCEPT ![r] = "done"]
               /\ exit' = [exit EXCEPT ![r] = "initfail"]
               /\ UNCHANGED <<inflight, sent>>
          ELSE /\ inflight' = [inflight EXCEPT ![r] =
                                 FetchOptions(req, getCookieHeader(storedCookies))]
               /\ sent' = [sent EXCEPT ![r] = 1]
               /\ pc' = [pc EXCEPT ![r] = "fetch"]
               /\ UNCHANGED <<result, exit>>
  /\ UNCHANGED <<storedCookies, redirectCount, currentResponse, nextUrl,
                 chainCookies, cookieQuota, redirectQuota, varied>>

\* The first fetch (line 529) resolves: followRedirects is entered (line 532)
\* and runs to its first await or to its return.
InitialResponse(r) ==
  /\ pc[r] = "fetch"
  /\ \E response \in Responses(r) :
       /\ currentResponse' = [currentResponse EXCEPT ![r] = Kept(response)]
       /\ redirectCount' = [redirectCount EXCEPT ![r] = 0]
       /\ LoopStep(r, response, 0, inbound[r].url.url)
       /\ Account(r, response)
  /\ UNCHANGED <<inbound, result>>

\* the catch of line 597 emptying the store before it answers
InitialFailureClearsStore(r) ==
  /\ pc[r] = "fetch"
  /\ storedCookies' = <<>>
  /\ result' = [result EXCEPT ![r] = FailedResponse]
  /\ pc' = [pc EXCEPT ![r] = "done"]
  /\ exit' = [exit EXCEPT ![r] = "initfail"]
  /\ inflight' = [inflight EXCEPT ![r] = NoFetch]
  /\ UNCHANGED <<inbound, redirectCount, currentResponse, nextUrl,
                 sent, chainCookies, env>>

\* The first fetch rejects: the catch of line 597.
InitialFailure(r) ==
  /\ pc[r] = "fetch"
  /\ result' = [result EXCEPT ![r] = FailedResponse]
  /\ pc' = [pc EXCEPT ![r] = "done"]
  /\ exit' = [exit EXCEPT ![r] = "initfail"]
  /\ inflight' = [inflight EXCEPT ![r] = NoFetch]
  /\ UNCHANGED <<storedCookies, inbound, redirectCount, currentResponse, nextUrl,
                 sent, chainCookies, env>>

\* the hop's Location resolved against the URL the caller asked for instead
\* of nextUrl
HopResponseFromOriginal(r) ==
  /\ pc[r] = "hop"
  /\ \E response \in Responses(r) :
       /\ currentResponse' = [currentResponse EXCEPT ![r] = Kept(response)]
       /\ redirectCount' = [redirectCount EXCEPT ![r] = NextCount(@)]
       /\ LoopStep(r, response, NextCount(redirectCount[r]), inbound[r].url.url)
       /\ Account(r, response)
  /\ UNCHANGED <<inbound, result>>

\* The fetch of a redirect hop (line 492) resolves: the count is raised and
\* the loop runs again.
HopResponse(r) ==
  /\ pc[r] = "hop"
  /\ \E response \in Responses(r) :
       /\ currentResponse' = [currentResponse EXCEPT ![r] = Kept(response)]
       /\ redirectCount' = [redirectCount EXCEPT ![r] = NextCount(@)]
       /\ LoopStep(r, response, NextCount(redirectCount[r]), nextUrl[r])
       /\ Account(r, response)
  /\ UNCHANGED <<inbound, result>>

\* The fetch of a redirect hop rejects: the catch of line 494 breaks, line 501
\* records the last response again and it is returned.
HopFailure(r) ==
  /\ pc[r] = "hop"
  /\ storedCookies' = FinalRecord(storedCookies, currentResponse[r])
  /\ pc' = [pc EXCEPT ![r] = "text"]
  /\ exit' = [exit EXCEPT ![r] = "hopfail"]
  /\ inflight' = [inflight EXCEPT ![r] = NoFetch]
  /\ UNCHANGED <<inbound, redirectCount, currentResponse, nextUrl, result, sent,
                 chainCookies, env>>

\* The body of the resolver's result is read (the await of line 541, 570, 581
\* or 591) and the response is returned; the locals of the call are gone.
Respond(r) ==
  /\ pc[r] = "text"
  /\ \E contentType \in ReturnedTypes :
       result' = [result EXCEPT ![r] =
                    Assemble(currentResponse[r], contentType, inbound[r].url.url)]
  /\ pc' = [pc EXCEPT ![r] = "done"]
  /\ currentResponse' = [currentResponse EXCEPT ![r] = NoResponse]
  /\ redirectCount' = [redirectCount EXCEPT ![r] = 0]
  /\ nextUrl' = [nextUrl EXCEPT ![r] = TargetUrl]
  /\ UNCHANGED <<storedCookies, inbound, inflight, sent, exit, chainCookies, env>>

(***************************************************************************)
(* The URL rewrite engine (lines 99-288).                                  *)
(*                                                                         *)
(* An HTML document is a sequence of tags, each with one URL attribute:    *)
(* <a href>, <form action>, <img src>, <script src>, <link href>, the      *)
(* value quoted with " or '.  A style sheet is a sequence of url() tokens. *)
(* Each regular expression of the code matches within one tag or token,    *)
(* and replace() with a /g pattern rewrites every match, so each stage is  *)
(* a map over the sequence.                                                *)
(***************************************************************************)
HttpsPrefix == <<"h", "t", "t", "p", "s", ":", "/", "/">>
HttpPrefix  == <<"h", "t", "t", "p", ":", "/", "/">>
DataPrefix  == <<"d", "a", "t", "a", ":">>
JavascriptPrefix == <<"j", "a", "v", "a", "s", "c", "r", "i", "p", "t", ":">>
MailtoPrefix == <<"m", "a", "i", "l", "t", "o", ":">>
TelPrefix   == <<"t", "e", "l", ":">>
\* '/api/proxy?url='
ProxyRoute  ==
  <<"/", "a", "p", "i", "/", "p", "r", "o", "x", "y", "?", "u", "r", "l", "=">>

\* the target: https://s/d/p?id=2
TargetHref == HttpsPrefix \o <<"s", "/", "d", "/", "p", "?", "i", "d", "=", "2">>
\* the proxy base: https://x
ProxyBaseUrl == HttpsPrefix \o <<"x">>

\* s.includes(p)
Includes(s, p) ==
  \E i \in 1..(Len(s) - Len(p) + 1) : SubSeq(s, i, i + Len(p) - 1) = p

Letters ==
  {"a", "b", "c", "d", "e", "f", "g", "h", "i", "j", "k", "l", "m", "n", "o",
   "p", "q", "r", "s", "t", "u", "v", "w", "x", "y", "z"}
Digits == {"0", "1", "2", "3", "4", "5", "6", "7", "8", "9"}
\* the characters encodeURIComponent leaves as they are
Unreserved == Letters \cup Digits \cup {"-", "_", ".", "!", "~", "*", "(", ")"}

\* the escape of one reserved character
PercentCode(c) ==
  CASE c = ":" -> <<"%", "3", "A">>
    [] c = "/" -> <<"%", "2", "F">>
    [] c = "?" -> <<"%", "3", "F">>
    [] c = "=" -> <<"%", "3", "D">>
    [] c = "#" -> <<"%", "2", "3">>
    [] c = "%" -> <<"%", "2", "5">>
    [] c = "&" -> <<"%", "2", "6">>
    [] c = "@" -> <<"%", "4", "0">>
    [] OTHER   -> <<"%", "2", "0">>

RECURSIVE encodeURIComponent(_)
encodeURIComponent(s) ==
  IF s = <<>> THEN <<>>
  ELSE (IF Head(s) \in Unreserved THEN <<Head(s)>> ELSE PercentCode(Head(s)))
       \o encodeURIComponent(Tail(s))

\* the text has a scheme: new URL(s) without a base parses it
HasScheme(s) ==
  /\ IndexOf(s, ":") > 1
  /\ \A j \in 1..(IndexOf(s, ":") - 1) : s[j] \in Letters

\* the index of the first character of s, from position from on, that is in
\* stops; Len(s) + 1 when there is none
FirstOf(s, from, stops) ==
  IF \E i \in from..Len(s) : s[i] \in stops
  THEN CHOOSE i \in from..Len(s) :
         s[i] \in stops /\ \A j \in from..(i - 1) : s[j] \notin stops
  ELSE Len(s) + 1

\* new URL(url).origin: scheme://host of an http or https URL, "null" of any
\* other scheme
Origin(url) ==
  IF StartsWith(url, HttpsPrefix)
  THEN SubSeq(url, 1, FirstOf(url, Len(HttpsPrefix) + 1, {"/", "?", "#"}) - 1)
  ELSE IF StartsWith(url, HttpPrefix)
  THEN SubSeq(url, 1, FirstOf(url, Len(HttpPrefix) + 1, {"/", "?", "#"}) - 1)
  ELSE <<"n", "u", "l", "l">>

\* the URL up to its query and fragment
PathPart(url) == SubSeq(url, 1, FirstOf(url, 1, {"?", "#"}) - 1)

\* the index of the last '/' of s, 0 when there is none
LastSlash(s) ==
  IF \E i \in 1..Len(s) : s[i] = "/"
  THEN CHOOSE i \in 1..Len(s) : s[i] = "/" /\ \A j \in (i + 1)..Len(s) : s[j] # "/"
  ELSE 0

\* the directory of a URL: its path up to the last '/'
DirPart(url) == SubSeq(PathPart(url), 1, LastSlash(PathPart(url)))

\* the directory above dir, the root staying the root
ParentDir(dir, origin) ==
  IF Len(dir) <= Len(origin) + 1 THEN dir
  ELSE SubSeq(dir, 1, LastSlash(SubSeq(dir, 1, Len(dir) - 1)))

RECURSIVE JoinPath(_, _, _)
\* rel appended to dir, each leading "../" going one directory up
JoinPath(dir, rel, origin) ==
  IF StartsWith(rel, <<".", ".", "/">>)
  THEN JoinPath(ParentDir(dir, origin), SubSeq(rel, 4, Len(rel)), origin)
  ELSE dir \o rel

\* new URL(rel, base).href for an http(s) base
ResolveUrl(rel, base) ==
  IF HasScheme(rel) THEN rel
  ELSE IF StartsWith(rel, <<"/", "/">>) THEN <<"h", "t", "t", "p", "s", ":">> \o rel
  ELSE IF StartsWith(rel, <<"/">>) THEN Origin(base) \o rel
  ELSE IF StartsWith(rel, <<"?">>) THEN PathPart(base) \o rel
  ELSE IF StartsWith(rel, <<"#">>) THEN SubSeq(base, 1, FirstOf(base, 1, {"#"}) - 1) \o rel
  ELSE JoinPath(DirPart(base), rel, Origin(base))

\* `${proxyBaseUrl}/api/proxy?url=${encodeURIComponent(url)}`
ProxyRouted(url, proxyBaseUrl) == proxyBaseUrl \o ProxyRoute \o encodeURIComponent(url)

\* line 154: a quoted text that starts with // gets https: in front
ProtocolRelativeTag(e) ==
  IF StartsWith(e.value, <<"/", "/">>) /\ Len(e.value) > 2
  THEN [e EXCEPT !.value = <<"h", "t", "t", "p", "s", ":">> \o e.value]
  ELSE e

\* lines 159-160: href|src|action = "/ or '/ not followed by / gets the
\* target's origin in front
RootRelativeTag(e, targetUrl) ==
  IF StartsWith(e.value, <<"/">>) /\ ~StartsWith(e.value, <<"/", "/">>)
  THEN [e EXCEPT !.value = Origin(targetUrl) \o e.value]
  ELSE e

\* the negative lookahead of line 165
NotRelative(value) ==
  \/ StartsWith(value, HttpPrefix)
  \/ StartsWith(value, HttpsPrefix)
  \/ StartsWith(value, <<"/">>)
  \/ StartsWith(value, <<"#">>)
  \/ StartsWith(value, DataPrefix)
  \/ StartsWith(value, JavascriptPrefix)

\* lines 164-175: any other non-empty value is resolved against the target
\* and written back between double quotes
RelativeTag(e, targetUrl) ==
  IF e.value # <<>> /\ ~NotRelative(e.value)
  THEN [e EXCEPT !.quote = "\"", !.value = ResolveUrl(e.value, targetUrl)]
  ELSE e

\* rewriteRelativeUrls (lines 149-178)
rewriteRelativeUrls(html, targetUrl) ==
  [i \in 1..Len(html) |->
     RelativeTag(RootRelativeTag(ProtocolRelativeTag(html[i]), targetUrl), targetUrl)]

\* the pattern of line 239 matches: an <a> whose href is not empty and has
\* no '#'
AnchorMatches(e) ==
  e.tag = "a" /\ e.value # <<>> /\ \A i \in 1..Len(e.value) : e.value[i] # "#"

\* the skip test of lines 242-248
AnchorSkipped(hrefUrl) ==
  \/ Includes(hrefUrl, ProxyRoute)
  \/ StartsWith(hrefUrl, JavascriptPrefix)
  \/ StartsWith(hrefUrl, MailtoPrefix)
  \/ StartsWith(hrefUrl, TelPrefix)
  \/ StartsWith(hrefUrl, <<"#">>)

\* the replacer of lines 239-264 for one tag
AnchorTag(e, proxyBaseUrl, targetOrigin) ==
  IF ~AnchorMatches(e) \/ AnchorSkipped(e.value) THEN e
  ELSE IF ~HasScheme(e.value) THEN e
  ELSE IF Origin(e.value) = targetOrigin
  THEN [e EXCEPT !.value = ProxyRouted(e.value, proxyBaseUrl)]
  ELSE e

\* rewriteAnchorLinks (lines 237-265)
rewriteAnchorLinks(html, proxyBaseUrl, targetOrigin) ==
  [i \in 1..Len(html) |-> AnchorTag(html[i], proxyBaseUrl, targetOrigin)]

\* the replacer of lines 185-193 for one tag
FormTag(e, proxyBaseUrl) ==
  IF e.tag = "form" /\ e.value # <<>>
  THEN [e EXCEPT !.value = ProxyRouted(e.value, proxyBaseUrl)]
  ELSE e

\* rewriteFormActions (lines 184-194)
rewriteFormActions(html, proxyBaseUrl) ==
  [i \in 1..Len(html) |-> FormTag(html[i], proxyBaseUrl)]

\* the replacers of lines 202-213 and 216-227 for one tag
ResourceTag(e, proxyBaseUrl) ==
  IF e.tag \in {"img", "script"} /\ e.value # <<>>
  THEN IF StartsWith(e.value, DataPrefix) \/ Includes(e.value, ProxyRoute) THEN e
       ELSE [e EXCEPT !.value = ProxyRouted(e.value, proxyBaseUrl)]
  ELSE IF e.tag = "link" /\ e.value # <<>>
  THEN IF Includes(e.value, ProxyRoute) THEN e
       ELSE [e EXCEPT !.value = ProxyRouted(e.value, proxyBaseUrl)]
  ELSE e

\* rewriteResourceLinks (lines 200-230)
rewriteResourceLinks(html, proxyBaseUrl) ==
  [i \in 1..Len(html) |-> ResourceTag(html[i], proxyBaseUrl)]

\* rewriteHtmlContent (lines 272-288)
rewriteHtmlContent(html, targetUrl, proxyBaseUrl) ==
  rewriteResourceLinks(
    rewriteFormActions(
      rewriteAnchorLinks(rewriteRelativeUrls(html, targetUrl),
                         proxyBaseUrl, Origin(targetUrl)),
      proxyBaseUrl),
    proxyBaseUrl)

\* the replacer without the data: test of line 106
CssTokenDataRouted(t, targetUrl, proxyBaseUrl) ==
  IF t.value = <<>> THEN t
  ELSE [t EXCEPT !.value =
          ProxyRouted(IF StartsWith(t.value, <<"/", "/">>)
                      THEN <<"h", "t", "t", "p", "s", ":">> \o t.value
                      ELSE ResolveUrl(t.value, targetUrl),
                      proxyBaseUrl)]

\* the replacer of lines 103-131 for one url() token
CssToken(t, targetUrl, proxyBaseUrl) ==
  IF t.value = <<>> \/ StartsWith(t.value, DataPrefix) THEN t
  ELSE LET absoluteUrl ==
             IF StartsWith(t.value, HttpPrefix) \/ StartsWith(t.value, HttpsPrefix)
             THEN t.value
             ELSE IF StartsWith(t.value, <<"/", "/">>)
             THEN <<"h", "t", "t", "p", "s", ":">> \o t.value
             ELSE IF StartsWith(t.value, <<"/">>)
             THEN Origin(targetUrl) \o t.value
             ELSE ResolveUrl(t.value, targetUrl)
       IN  [t EXCEPT !.value = ProxyRouted(absoluteUrl, proxyBaseUrl)]

\* rewriteCssUrls (lines 99-132)
rewriteCssUrls(css, targetUrl, proxyBaseUrl) ==
  [i \in 1..Len(css) |-> CssToken(css[i], targetUrl, proxyBaseUrl)]

Step(r) ==
  \/ Begin(r)
  \/ InitialResponse(r)
  \/ InitialFailure(r)
  \/ HopResponse(r)
  \/ HopFailure(r)
  \/ Respond(r)

Next == (\E r \in Reqs : Step(r)) /\ UNCHANGED texts

\* no text is given to the rewrite engine
NoText == htmlPasses = <<>> /\ cssPasses = <<>>

\* concurrent requests, cookies, short chains
Init ==
  /\ Start
  /\ NoText
  /\ cookieQuota = MaxCookieResponses
  /\ redirectQuota = MaxRedirectResponses
  /\ arrivals = NReq
  /\ varied = FALSE

Spec == Init /\ [][Next]_vars

\* concurrent requests, chains up to the hop bound
InitDeep ==
  /\ Start
  /\ NoText
  /\ cookieQuota = DeepCookieResponses
  /\ redirectQuota = Unlimited
  /\ arrivals = NReq
  /\ varied = FALSE

\* one request with every input, chains up to the hop bound
InitSolo ==
  /\ Start
  /\ NoText
  /\ cookieQuota = SoloCookieResponses
  /\ redirectQuota = Unlimited
  /\ arrivals = 1
  /\ varied = TRUE

SoloSpec == InitSolo /\ [][Next]_vars

\* every awaited fetch resolves or rejects, and every body read completes
Progress(r) ==
  /\ \/ InitialResponse(r)
     \/ InitialFailure(r)
     \/ HopResponse(r)
     \/ HopFailure(r)
     \/ Respond(r)
  /\ UNCHANGED texts

FairSpec == InitDeep /\ [][Next]_vars /\ \A r \in Reqs : WF_vars(Progress(r))

(***************************************************************************)
(* The rewrite engine applied to a text, and again to its own output.      *)
(***************************************************************************)
Tags == {"a", "form", "img", "script", "link"}
Quotes == {"\"", "'"}
CssQuotes == {"", "\"", "'"}

\* the references a tag or a url() token may hold
References ==
  { <<"/", "p">>,                                    \* root-relative
    <<"/", "p", "?", "q", "=", "1">>,                \* with a query
    <<"/", "p", "#", "f">>,                          \* with a fragment
    <<"p", "2">>,                                    \* document-relative
    <<"p", "2", "#", "f">>,
    <<"?", "q", "=", "1">>,
    <<".", ".", "/", "q">>,
    HttpsPrefix \o <<"s", "/", "p">>,                \* absolute, the target's origin
    HttpsPrefix \o <<"s", "/", "p", "#", "f">>,
    HttpsPrefix \o <<"o", "/", "p">>,                \* absolute, another origin
    HttpPrefix \o <<"s", "/", "p">>,
    <<"/", "/", "s", "/", "p">>,                     \* protocol-relative
    <<"/", "/", "o", "/", "p">>,
    <<"#", "f">>,                                    \* fragment-only
    MailtoPrefix \o <<"a", "@", "b">>,
    TelPrefix \o <<"1">>,
    JavascriptPrefix \o <<"v">>,
    DataPrefix \o <<"x">>,
    ProxyRouted(HttpsPrefix \o <<"s", "/", "p">>, ProxyBaseUrl) }  \* proxy-route form

HtmlTags == [tag : Tags, quote : Quotes, value : References]
CssTokens == [quote : CssQuotes, value : References]

Documents == UNION {[1..n -> HtmlTags] : n \in 1..MaxTags}
Sheets == UNION {[1..n -> CssTokens] : n \in 1..MaxTags}

\* the HTML branch of proxyRequest (lines 540-548) run on the last text
RewriteHtml ==
  /\ Len(htmlPasses) \in 1..MaxPasses
  /\ htmlPasses' = Append(htmlPasses,
                          rewriteHtmlContent(htmlPasses[Len(htmlPasses)],
                                             TargetHref, ProxyBaseUrl))
  /\ UNCHANGED cssPasses

\* the CSS branch of proxyRequest (lines 569-577) run on the last text
RewriteCss ==
  /\ Len(cssPasses) \in 1..MaxPasses
  /\ cssPasses' = Append(cssPasses,
                         rewriteCssUrls(cssPasses[Len(cssPasses)],
                                        TargetHref, ProxyBaseUrl))
  /\ UNCHANGED htmlPasses

NextRewrite ==
  /\ RewriteHtml \/ RewriteCss
  /\ UNCHANGED <<storedCookies, pc, inbound, inflight, redirectCount,
                 currentResponse, nextUrl, result, sent, exit, chainCookies, env>>

\* one text, HTML or CSS, is given to the engine
InitRewrite ==
  /\ Start
  /\ cookieQuota = 0
  /\ redirectQuota = 0
  /\ arrivals = 0
  /\ varied = FALSE
  /\ \/ htmlPasses \in {<<d>> : d \in Documents} /\ cssPasses = <<>>
     \/ htmlPasses = <<>> /\ cssPasses \in {<<c>> : c \in Sheets}

RewriteSpec == InitRewrite /\ [][NextRewrite]_vars

(***************************************************************************)
(* Properties.                                                             *)
(***************************************************************************)
\* a response was received by r in this step, or its hop fetch failed: the
\* steps in which updateCookies runs, on currentResponse'[r]
RecordStep(r) == pc[r] \in {"fetch", "hop"} /\ pc'[r] \in {"hop", "text"}

InFlight(r) == pc[r] \in {"fetch", "hop", "text"}

ContentKinds == {"html", "css", "js", "binary"}

\* the pair of the last header of setCookies whose pair has the name n
LastPair(setCookies, n) ==
  LET idx == {i \in 1..Len(setCookies) : NameOf(PairOf(setCookies[i])) = n}
  IN  PairOf(setCookies[CHOOSE i \in idx : \A j \in idx : j <= i])

\* record() as the specification words it: the entries with the header's name
\* are removed and the header's pair is appended
RefRecord(store, cookie) ==
  Append(SelectSeq(store, LAMBDA c : NameOf(c) # SplitFirst(cookie, "=")),
         PairOf(cookie))

RECURSIVE RefUpdate(_, _)
RefUpdate(store, setCookies) ==
  IF setCookies = <<>> THEN store
  ELSE RefUpdate(RefRecord(store, Head(setCookies)), Tail(setCookies))

\* C1: in every reachable state the store holds at most one entry per cookie
\* name.
C1_AtMostOneEntryPerName ==
  \A i, j \in 1..Len(storedCookies) :
     NameOf(storedCookies[i]) = NameOf(storedCookies[j]) => i = j

\* C2: every record step leaves the store as the specified record() does:
\* for each header, the entries with its name removed and its pair appended
\* at the end; and the Cookie header sent next is those entries joined with
\* "; " in that order.
C2_RecordReplacesByName ==
  [][\A r \in Reqs :
       RecordStep(r) =>
         /\ storedCookies' = RefUpdate(storedCookies, currentResponse'[r].setCookies)
         /\ pc'[r] = "hop" =>
              inflight'[r].cookie =
                Join(RefUpdate(storedCookies, currentResponse'[r].setCookies),
                     <<";", " ">>)]_vars

\* C3: when a request whose chain ended in a non-3xx response has completed,
\* the store holds the pairs set by the responses of the chain (the last one
\* per name), and the caller has the body of the last response received.
C3_ChainCookiesAndFinalBody ==
  \A r \in Reqs :
     (pc[r] = "done" /\ exit[r] = "final") =>
        /\ sent[r] <= 11
        /\ chainCookies[r] \subseteq Entries(storedCookies)
        /\ result[r].kind \in ContentKinds
        /\ result[r].body = sent[r]

\* C3's case: a chain 3xx, 3xx, 200 whose responses set three names
C3_Witness ==
  \E r \in Reqs :
     /\ pc[r] = "done" /\ exit[r] = "final" /\ sent[r] = 3
     /\ Cardinality({NameOf(p) : p \in chainCookies[r]}) >= 3
     /\ result[r].body = 3

\* C4: a request issues at most 11 upstream requests; when the loop ends on
\* the hop bound the resolver's result is the 11th response, still a 3xx, and
\* the caller gets its body, not the 500 failure response.
C4_BoundReturnsEleventhResponse ==
  \A r \in Reqs :
     /\ sent[r] <= 11
     /\ exit[r] = "bound" =>
          /\ sent[r] = 11
          /\ pc[r] \in {"text", "done"}
          /\ pc[r] = "text" =>
               /\ currentResponse[r].body = 11
               /\ currentResponse[r].status \in 300..399
          /\ pc[r] = "done" =>
               /\ result[r].body = 11
               /\ result[r].kind \in ContentKinds
               /\ result[r].status # 500

\* C4's case: the bound was reached and the response returned
C4_Witness ==
  \E r \in Reqs : exit[r] = "bound" /\ pc[r] = "done" /\ sent[r] = 11

\* C5: every request that has begun eventually has its response.
C5_EveryRequestReturns ==
  \A r \in Reqs : [](pc[r] # "idle" => <>(pc[r] = "done" /\ result[r].status # 0))

\* C5's case: two requests in flight, one of them ten redirects deep
C5_Witness ==
  \E r, q \in Reqs :
     r # q /\ pc[r] = "hop" /\ redirectCount[r] = 9 /\ pc[q] = "hop"

\* C6: a record step taken while another request is in flight loses no name
\* the store held, and leaves exactly one entry for each name it records,
\* the pair of the last header recorded for that name.
C6_ConcurrentLastWriterWins ==
  [][\A r \in Reqs :
       (RecordStep(r) /\ \E q \in Reqs \ {r} : InFlight(q)) =>
         LET setCookies == currentResponse'[r].setCookies
         IN  /\ Names(storedCookies) \subseteq Names(storedCookies')
             /\ \A i \in 1..Len(setCookies) :
                  LET n == NameOf(PairOf(setCookies[i]))
                  IN  /\ Cardinality({k \in 1..Len(storedCookies') :
                                        NameOf(storedCookies'[k]) = n}) = 1
                      /\ LastPair(setCookies, n) \in Entries(storedCookies')]_vars

C8_MissingUrlGives400 ==
  \A r \in Reqs :
     (pc[r] # "idle" /\ inbound[r].url.kind \in {"null", "empty"}) =>
        /\ pc[r] = "done"
        /\ result[r].status = 400
        /\ result[r].kind = "URL parameter is required"
        /\ sent[r] = 0
        /\ inflight[r] = NoFetch

\* C8's case: a POST with an empty url parameter was answered
C8_Witness ==
  \E r \in Reqs :
     /\ pc[r] = "done" /\ inbound[r].method = "POST"
     /\ inbound[r].url.kind = "empty" /\ result[r].status = 400

\* the reference classes of C10: root-relative, document-relative (possibly
\* only a query) and absolute http(s), with or without query or fragment
Locator(value) ==
  /\ value # <<>>
  /\ ~StartsWith(value, <<"#">>)
  /\ ~StartsWith(value, <<"/", "/">>)
  /\ HasScheme(value) => (StartsWith(value, HttpPrefix) \/ StartsWith(value, HttpsPrefix))

\* C9: the engine run on its own output, with the same target and proxy
\* base, gives that output again, for HTML and for CSS.
C9_EngineIdempotent ==
  /\ Len(htmlPasses) >= 3 => htmlPasses[3] = htmlPasses[2]
  /\ Len(cssPasses) >= 3 => cssPasses[3] = cssPasses[2]

\* C10: after one pass every <a href> whose reference resolves to the
\* target's origin holds ProxyBase/api/proxy?url=<encoded resolved URL>, and
\* every <a href> that resolves to another origin holds what it held.
C10_SameOriginAnchorsProxied ==
  Len(htmlPasses) >= 2 =>
    \A i \in 1..Len(htmlPasses[1]) :
       LET e == htmlPasses[1][i]
           resolved == ResolveUrl(e.value, TargetHref)
       IN  (e.tag = "a" /\ Locator(e.value)) =>
              htmlPasses[2][i].value =
                IF Origin(resolved) = Origin(TargetHref)
                THEN ProxyRouted(resolved, ProxyBaseUrl)
                ELSE e.value

\* C11: after the whole pipeline an anchor href that is mailto:, tel:,
\* javascript: or fragment-only, and a data: URI in the src of an img or a
\* script or in the href of a link, hold the URL they held.
C11_NonHttpNeverProxied ==
  Len(htmlPasses) >= 2 =>
    \A i \in 1..Len(htmlPasses[1]) :
       LET e == htmlPasses[1][i]
       IN  (\/ /\ e.tag = "a"
               /\ \/ StartsWith(e.value, MailtoPrefix)
                  \/ StartsWith(e.value, TelPrefix)
                  \/ StartsWith(e.value, JavascriptPrefix)
                  \/ StartsWith(e.value, <<"#">>)
            \/ /\ e.tag \in {"img", "script", "link"}
               /\ StartsWith(e.value, DataPrefix))
           => htmlPasses[2][i].value = e.value

C13_ContentTypeIffPostWithBody ==
  \A r \in Reqs :
     pc[r] \in {"fetch", "hop"} =>
        (inflight[r].contentType = "application/x-www-form-urlencoded"
           <=> (inbound[r].method = "POST"
                /\ inbound[r].body \notin {"", "undefined"}))

\* C14: the store starts empty and no step removes a name from it; and the
\* Cookie header of every upstream request issued is the serialization of
\* the store the step leaves, which holds every name the store held.
C14_StoreNamesNeverShrink ==
  /\ storedCookies = <<>>
  /\ [][/\ Names(storedCookies) \subseteq Names(storedCookies')
        /\ \A r \in Reqs :
             (pc'[r] \in {"fetch", "hop"} /\ sent'[r] # sent[r]) =>
                /\ inflight'[r].cookie = getCookieHeader(storedCookies')
                /\ Len(storedCookies') >= Cardinality(Names(storedCookies))]_vars

\* C14's case: the store holds three names, one of them replaced, and a
\* request with that Cookie header is awaited
C14_Witness ==
  \E r \in Reqs :
     /\ pc[r] = "hop"
     /\ Cardinality(Names(storedCookies)) >= 3
     /\ PairOf(CookieA2) \in Entries(storedCookies)
     /\ inflight[r].cookie = getCookieHeader(storedCookies)

C16_CookieHeaderIsStoreAtSend ==
  [][\A r \in Reqs :
       (pc'[r] \in {"fetch", "hop"} /\ sent'[r] # sent[r]) =>
          /\ inflight'[r].cookie = getCookieHeader(storedCookies')
          /\ pc'[r] = "hop" =>
               LET setCookies == currentResponse'[r].setCookies
               IN  /\ RecordStep(r)
                   /\ storedCookies' = updateCookies(storedCookies, setCookies)
                   /\ \A i \in 1..Len(setCookies) :
                        LastPair(setCookies, NameOf(PairOf(setCookies[i])))
                          \in Entries(storedCookies')]_vars

\* C16's case: a hop's request carries the cookies the redirect response set,
\* while another request is in flight
C16_Witness ==
  \E r, q \in Reqs :
     /\ r # q /\ InFlight(q)
     /\ pc[r] = "hop" /\ sent[r] = 2
     /\ currentResponse[r].setCookies = <<CookieB1, CookieAB>>
     /\ inflight[r].cookie = getCookieHeader(<<PairOf(CookieB1), PairOf(CookieAB)>>)

\* C17: the request of every hop goes to the Location of the redirect
\* response resolved against the URL of the request that response answers,
\* the current URL of the chain, which becomes the next current URL.
C17_LocationResolvedAgainstCurrent ==
  [][\A r \in Reqs :
       (pc[r] \in {"fetch", "hop"} /\ pc'[r] = "hop") =>
          /\ inflight'[r].url =
               ResolveLocation(currentResponse'[r].location, inflight[r].url)
          /\ nextUrl'[r] = inflight'[r].url]_vars

\* C17's case: after a hop to another host a root-relative Location was
\* followed, on that host
C17_Witness ==
  \E r \in Reqs :
     /\ pc[r] = "hop" /\ sent[r] = 3
     /\ inbound[r].url.url = TargetUrl
     /\ currentResponse[r].location.kind = "root"
     /\ inflight[r].url = [origin |-> "other", dir |-> "/"]

\* C18: when an HTML or CSS body is returned, the target it was rewritten
\* against is the URL of the request that body answers, the last URL of the
\* chain (a chain ended by a failed hop fetch aside, whose body answers the
\* request before).
C18_RewriteTargetIsFinalUrl ==
  [][\A r \in Reqs :
       (/\ pc[r] = "text" /\ pc'[r] = "done"
        /\ exit[r] # "hopfail"
        /\ result'[r].kind \in {"html", "css"})
       => result'[r].target = nextUrl[r]]_vars

\* C19: no response returned to a caller has a status in [300, 400).
C19_NoRedirectStatusReturned ==
  \A r \in Reqs : pc[r] = "done" => result[r].status \notin 300..399

\* C20: the second recording of a response changes nothing: a step that
\* records a 3xx response twice (no Location, or one that cannot be
\* resolved) leaves the store as one recording does, and the recording after
\* a failed hop fetch, of the response recorded before that fetch, leaves the
\* store as it is.
C20_SecondRecordingChangesNothing ==
  [][\A r \in Reqs :
       /\ (RecordStep(r) /\ exit'[r] \in {"noloc", "badloc"}) =>
            storedCookies' = updateCookies(storedCookies, currentResponse'[r].setCookies)
       /\ (pc[r] = "hop" /\ exit'[r] = "hopfail") =>
            storedCookies' = storedCookies]_vars

\* C21: the request of every hop has the method, body, User-Agent and
\* Content-Type of the request before it, which are those the inbound request
\* gave the first one, and redirect: 'manual'; only its URL and its Cookie
\* header are set anew.
C21_HopKeepsRequestShape ==
  [][\A r \in Reqs :
       (pc[r] \in {"fetch", "hop"} /\ pc'[r] = "hop") =>
          /\ inflight'[r].method = inflight[r].method
          /\ inflight'[r].body = inflight[r].body
          /\ inflight'[r].userAgent = inflight[r].userAgent
          /\ inflight'[r].contentType = inflight[r].contentType
          /\ inflight'[r].redirect = "manual"
          /\ inflight[r].redirect = "manual"
          /\ inflight'[r].method = inbound[r].method
          /\ inflight'[r].userAgent = inbound[r].userAgent
          /\ inflight'[r].body =
               IF inbound[r].method = "POST" /\ inbound[r].body # ""
               THEN inbound[r].body ELSE "undefined"
          /\ inflight'[r].url = nextUrl'[r]
          /\ inflight'[r].cookie = getCookieHeader(storedCookies')]_vars

\* C21's case: a POST with a body, redirected twice, is awaited as a POST
\* with that body at the redirect target
C21_Witness ==
  \E r \in Reqs :
     /\ pc[r] = "hop" /\ sent[r] = 3
     /\ inbound[r].method = "POST" /\ inbound[r].body = "k=v"
     /\ inbound[r].userAgent = "ua"
     /\ inflight[r].method = "POST" /\ inflight[r].body = "k=v"
     /\ inflight[r].userAgent = "ua"
     /\ inflight[r].contentType = "application/x-www-form-urlencoded"
     /\ inflight[r].url = OtherUrl

\* C22: the store changes only in a step in which a request records a
\* response it received; the step that answers 400 for a missing parameter
\* or 500 for a failed first fetch leaves the store as it is; and a request
\* that failed after a response was received leaves the names that its
\* responses set in the store.
C22_StoreChangesOnlyOnRecord ==
  /\ [][/\ storedCookies' # storedCookies =>
             \E r \in Reqs : RecordStep(r) /\ currentResponse'[r].status # 0
        /\ \A r \in Reqs :
             (pc[r] # "done" /\ pc'[r] = "done"
              /\ (result'[r].status = 400 \/ exit'[r] = "initfail"))
             => storedCookies' = storedCookies]_vars
  /\ [](\A r \in Reqs :
          exit[r] \in {"hopfail", "badloc"} =>
             {NameOf(p) : p \in chainCookies[r]} \subseteq Names(storedCookies))

\* C22's case: with cookies in the store, one request ended on a failed
\* first fetch and another on a failed hop after its redirect set cookies
C22_Witness ==
  \E r, q \in Reqs :
     /\ pc[r] = "done" /\ exit[r] = "initfail" /\ sent[r] = 1
     /\ pc[q] = "done" /\ exit[q] = "hopfail"
     /\ chainCookies[q] # {}
     /\ chainCookies[q] \subseteq Entries(storedCookies)

====
